---- MODULE Spec2Model ----
(***************************************************************************)
(* Model of the wacz-preparator pipeline: ArchiveItExtractor.process() and *)
(* the stages it runs (src/ArchiveItExtractor.js, src/index.types.js).     *)
(*                                                                         *)
(* Conventions.  JavaScript null/undefined is 0 for numbers, "" for        *)
(* strings and <<>> for token sequences (all falsy in the source too).     *)
(* A filename is a sequence of tokens whose last token is its extension.   *)
(* A file's content is a sequence of chunks.  The concurrency limit is     *)
(* held in half units (2 = 1, 3 = 1.5, 100 = 50) because the constructor   *)
(* accepts any number greater than zero, fractions included.               *)
(***************************************************************************)
EXTENDS Integers, Sequences, FiniteSets, TLC

(***************************************************************************)
(* Bounds of the model.                                                    *)
(***************************************************************************)
MaxListing == 2
MaxLocal == 1
\* Faults of the environment (failed requests, unreadable files, failed writes)
\* that one run may meet without aborting.
MaxFaults == 1

(***************************************************************************)
(* The remote platform: the files it may list, what it serves for them.    *)
(***************************************************************************)
F_One == <<"capture1", ".warc.gz">>
F_Two == <<"capture2", ".warc">>
F_Patch == <<"ARCHIVEIT", "MISSING_URLS_PATCH", ".warc.gz">>
F_Bare == <<"capture4", ".warc.gz">>
Filenames == {F_One, F_Two, F_Patch, F_Bare}

FileNo(f) == CASE f = F_One -> 1 [] f = F_Two -> 2 [] f = F_Patch -> 3 [] OTHER -> 4

\* The bytes the platform serves for a file, as two chunks.
RemoteContent(f) == <<2 * FileNo(f) - 1, 2 * FileNo(f)>>

TS_Good == <<"2021-04-30", " ", "20:04:57", ".635000">>
TS_Other == <<"1999-12-31", " ", "23:59:59", ".000000">>
TS_Bad == <<"not", " ", "a-date">>

\* Seed records of the crawl report of a crawl id.
SeedReport(crawl) ==
    CASE crawl = 99 -> << [seed_id |-> 1, seed |-> "https://example.com", timestamp |-> TS_Good] >>
      [] crawl = 7 -> << [seed_id |-> 0, seed |-> "https://two.example", timestamp |-> << >>],
                         [seed_id |-> 2, seed |-> "https://three.example", timestamp |-> TS_Bad] >>
      [] OTHER -> << >>

\* Title held by the seed metadata of a seed id ("" when it has none).
SeedMetaTitle(seedId) == IF seedId = 1 THEN "Example" ELSE ""

\* crypto.createHash('sha1') of a content, as a collision-free digest: it is
\* never empty (<< >> stands for "no hash") and differs for different contents.
Sha1(content) == <<"sha1">> \o content

\* One entry of the file listing, as the platform returns it.
ListingEntry(f) ==
    [filename |-> f,
     locations |-> CASE f = F_One -> <<"https://warcs/1", "https://mirror/1">>
                     [] f = F_Two -> <<"https://warcs/2">>
                     [] f = F_Patch -> <<"https://warcs/3">>
                     [] OTHER -> << >>,
     sha1 |-> Sha1(RemoteContent(f)),
     crawl |-> CASE f = F_One -> 99 [] f = F_Two -> 7 [] f = F_Patch -> 7 [] OTHER -> 0]

\* The listing is served in pages of PageSize entries (page_size, scaled down).
PageSize == 1

\* A listing whose pages never announce a next page.
ListingPageWithoutNext(all, page) ==
    [files |-> SubSeq(all, (page - 1) * PageSize + 1,
                      IF page * PageSize < Len(all) THEN page * PageSize ELSE Len(all)),
     next |-> FALSE]

ListingPage(all, page) ==
    [files |-> SubSeq(all, (page - 1) * PageSize + 1,
                      IF page * PageSize < Len(all) THEN page * PageSize ELSE Len(all)),
     next |-> page * PageSize < Len(all)]

(***************************************************************************)
(* Small helpers for JavaScript string and array operations.               *)
(***************************************************************************)
EndsWith(name, suffix) == Len(name) > 0 /\ name[Len(name)] = suffix
Includes(name, token) == \E k \in 1..Len(name) : name[k] = token
Range(s) == {s[k] : k \in 1..Len(s)}
SeqsUpTo(S, n) == UNION {[1..k -> S] : k \in 0..n}

(***************************************************************************)
(* BaseExtractor constructor: the stored concurrency limit (half units).   *)
(***************************************************************************)
DEFAULT_CONCURRENCY == 50

\* What Number() gives: NaN, or a number.
NaN == [nan |-> TRUE, val |-> 0]
Num(n) == [nan |-> FALSE, val |-> n]

\* The option is given as Number() reads it, in half units: Num(0) stands for
\* an option that is absent (or falsy), NaN for a text that is not a number.
StoredConcurrency(option) ==
    IF option = Num(0) THEN 2 * DEFAULT_CONCURRENCY        \* options?.concurrency
    ELSE IF option.nan THEN 2 * DEFAULT_CONCURRENCY        \* equal(isNaN(..), false)
    ELSE IF ~(option.val > 0) THEN 2 * DEFAULT_CONCURRENCY \* equal(.. > 0, true)
    ELSE option.val

ConcurrencyOptions == {Num(0), Num(2), Num(3)}

\* The same, and a negative number and a text that is not a number.
ConstructorConcurrencies == ConcurrencyOptions \cup {Num(0 - 2), NaN}

(***************************************************************************)
(* The options of the constructors.  A text is a sequence of characters    *)
(* (an URL, of tokens); an option is << >> when absent and <<text>> when   *)
(* given; the signing token is "" when absent.                             *)
(***************************************************************************)
\* A trim() that removes nothing.
TrimNothing(s) == s

RECURSIVE Trim(_)
Trim(s) ==
    IF s = << >> THEN s
    ELSE IF Head(s) = " " THEN Trim(Tail(s))
    ELSE IF s[Len(s)] = " " THEN Trim(SubSeq(s, 1, Len(s) - 1))
    ELSE s

Digits == <<"0", "1", "2", "3", "4", "5", "6", "7", "8", "9">>
IsDigits(s) == Len(s) > 0 /\ \A k \in 1..Len(s) : Includes(Digits, s[k])
DigitValue(c) == (CHOOSE k \in 1..Len(Digits) : Digits[k] = c) - 1

RECURSIVE Decimal(_)
Decimal(s) ==
    IF s = << >> THEN 0 ELSE 10 * Decimal(SubSeq(s, 1, Len(s) - 1)) + DigitValue(s[Len(s)])

\* Number(option), for an absent option and for texts of digits, signs, spaces
\* and letters.
NumberOf(option) ==
    IF option = << >> THEN NaN
    ELSE LET t == Trim(option[1]) IN
         IF t = << >> THEN Num(0)
         ELSE IF IsDigits(t) THEN Num(Decimal(t))
         ELSE IF t[1] = "-" /\ IsDigits(Tail(t)) THEN Num(0 - Decimal(Tail(t)))
         ELSE IF t[1] = "+" /\ IsDigits(Tail(t)) THEN Num(Decimal(Tail(t)))
         ELSE NaN

\* options.username.trim() throws or gives an empty string (the same for password).
CredentialThrows(option) == option = << >> \/ Len(Trim(option[1])) = 0

CollectionIdThrows(option) == NumberOf(option).nan \/ ~(NumberOf(option).val > 0)

ConstructorThrows(o) ==
    \/ CredentialThrows(o.username)
    \/ CredentialThrows(o.password)
    \/ CollectionIdThrows(o.collectionId)

\* new URL(text) does not throw, and its href.
IsUrl(text) == Len(text) >= 3 /\ text[1] \in {"http:", "https:"} /\ text[2] = "//"
Href(text) == IF Len(text) = 3 THEN Append(text, "/") ELSE text

\* this.signingUrl and this.signingToken (null: << >> and "").
SigningUrl(o) ==
    IF o.signingUrl # << >> /\ o.signingUrl[1] # << >> /\ IsUrl(o.signingUrl[1])
      THEN Href(o.signingUrl[1]) ELSE << >>
\* A signing token stored whenever it is given.
SigningTokenGiven(o) == o.signingToken

SigningToken(o) == IF SigningUrl(o) # << >> THEN o.signingToken ELSE ""

Credentials(c) == {<< >>, << << >> >>, << <<" ", " ">> >>, << <<" ", c, " ">> >>}
CollectionIds ==
    {<< >>, << << >> >>, << <<"a", "b", "c">> >>, << <<"0">> >>, << <<"-", "5">> >>,
     << <<"1", "2", "3", "4", "5">> >>}
SigningUrls == {<< >>, << <<"not a url">> >>, << <<"https:", "//", "sign.example">> >>}

OptionInputs ==
    [username : Credentials("u"), password : Credentials("p"),
     collectionId : CollectionIds, concurrency : ConstructorConcurrencies,
     signingUrl : SigningUrls, signingToken : {"", "token"}]

\* Options every check of the constructors accepts.
ValidOptions(c) ==
    [username |-> << <<" ", "u", " ">> >>, password |-> << <<" ", "p", " ">> >>,
     collectionId |-> << <<"1", "2", "3", "4", "5">> >>, concurrency |-> c,
     signingUrl |-> << <<"https:", "//", "sign.example">> >>, signingToken |-> "token"]

(***************************************************************************)
(* State.                                                                  *)
(***************************************************************************)
VARIABLES
    listing,      \* the remote file listing (the platform's state)
    disk,         \* working directory: filename -> content, for the files present
    dirExists,    \* does the working directory exist
    container,    \* has the .wacz file been written, and from what
    concurrency,  \* this.concurrency, in half units
    info,         \* collectionPath, WACZPath, collectionTitle, collectionDescription
    WARCs,        \* this.WARCs
    pages,        \* this.pages
    pc,           \* the stage process() is at ("Done" once it has returned)
    active,       \* TRUE while a stage that awaits several times is under way
    result,       \* what process() returned: "none" (not yet), "false", "undefined"
    page,         \* fetchWARCsList: params.page
    i,            \* loop index of the batched stage under way
    group,        \* its current group of items
    tasks,        \* state of each launched task of the group
    trace,        \* history: stages started in this run, in order
    ended,        \* history: stages finished in this run, in order
    raised,       \* history: stages that threw in this run
    settled,      \* history: <<item, outcome>> of the tasks settled in the batched stage
    disk0,        \* history: the working directory when this run began
    stats,        \* history: counters of this run
    options,      \* what the constructor was called with
    prev          \* history: << >> in a first run, <<what the first run left>> in a second

vars == <<listing, disk, dirExists, container, concurrency, info, WARCs, pages, pc,
          active, result, page, i, group, tasks, trace, ended, raised, settled, disk0, stats,
          options, prev>>

world == <<listing, concurrency, disk0, options, prev>>
batch == <<i, group, tasks, settled>>

\* titleLog: what each title task that settled did; titleTasks: how many settled;
\* unread: the references whose readFile threw in the latest checksum pass;
\* budget: how many times the environment may fail in this run; asked: the
\* listing pages requested, in order; answers: the responses to the collection
\* detail request.
NewStats == [downloads |-> 0, failures |-> 0, hashErrors |-> 0, titleLog |-> {},
             titleTasks |-> 0, unread |-> {}, budget |-> MaxFaults, asked |-> << >>,
             answers |-> << >>]

\* The environment fails n more times in this run.
Faults(n) ==
    /\ stats.failures + n <= stats.budget
    /\ stats' = [stats EXCEPT !.failures = @ + n]

NoInfo == [collectionPath |-> "", WACZPath |-> "", collectionTitle |-> "",
           collectionDescription |-> ""]

\* Contents a file may have on disk before the first run: whole, or cut short by
\* an interrupted download.
LocalContents(f) == {RemoteContent(f), SubSeq(RemoteContent(f), 1, 1)}

InitialDisks ==
    UNION {{d \in [S -> UNION {LocalContents(f) : f \in S}] :
              \A f \in S : d[f] \in LocalContents(f)} :
           S \in {T \in SUBSET Filenames : Cardinality(T) <= MaxLocal}}

Init ==
    /\ listing \in SeqsUpTo(Filenames, MaxListing)
    /\ disk \in InitialDisks
    /\ dirExists \in BOOLEAN
    /\ (~dirExists => disk = << >>)
    /\ container = << >>
    /\ options \in {ValidOptions(c) : c \in ConcurrencyOptions}
    /\ concurrency = StoredConcurrency(options.concurrency)
    /\ info = NoInfo
    /\ WARCs = << >>
    /\ pages = << >>
    /\ pc = "CheckAccess"
    /\ active = FALSE
    /\ result = "none"
    /\ page = 0
    /\ i = 0
    /\ group = << >>
    /\ tasks = << >>
    /\ trace = << >>
    /\ ended = << >>
    /\ raised = {}
    /\ settled = {}
    /\ disk0 = disk
    /\ stats = NewStats
    /\ prev = << >>

(***************************************************************************)
(* process(): the order of the stages and what an error in a stage does.   *)
(***************************************************************************)
StageOrder ==
    <<"CheckAccess", "EnsureWorkingDir", "FetchCollectionInfo", "BuildIndex",
      "EnrichCrawlInfo", "ResolveTitles", "DeleteLoose", "VerifyChecksums1",
      "FetchMissing", "VerifyChecksums2", "BuildPageIndex", "AssembleContainer",
      "Report">>

StageNo(stage) == CHOOSE k \in 1..Len(StageOrder) : StageOrder[k] = stage

\* A process() without the second checksum pass.
NextStageOnePass(stage) ==
    IF stage = "FetchMissing" THEN "BuildPageIndex"
    ELSE IF StageNo(stage) < Len(StageOrder) THEN StageOrder[StageNo(stage) + 1] ELSE "Done"

NextStage(stage) ==
    IF StageNo(stage) < Len(StageOrder) THEN StageOrder[StageNo(stage) + 1] ELSE "Done"

\* A process() whose download step is non-blocking too.
NonBlockingDownloads == {"ResolveTitles", "FetchMissing"}

\* A process() whose crawl-information step is non-blocking too.
NonBlockingEnrichment == {"EnrichCrawlInfo", "ResolveTitles"}

\* A process() whose listing step is non-blocking too.
NonBlockingListing == {"BuildIndex", "ResolveTitles"}

\* A process() whose credentials step is non-blocking too.
NonBlockingAccess == {"CheckAccess", "ResolveTitles"}

\* The stages whose catch block does not return.
NonBlocking == {"ResolveTitles"}

\* A stage starts: the body of its try block is entered.
Starts(stage) == trace' = IF active THEN trace ELSE Append(trace, stage)

\* A stage ends, normally or by throwing into its catch block.
Ends(stage, threw) ==
    /\ ended' = Append(ended, stage)
    /\ active' = FALSE
    /\ raised' = IF threw THEN raised \cup {stage} ELSE raised
    /\ IF threw /\ stage \notin NonBlocking
         THEN pc' = "Done" /\ result' = "false"
         ELSE /\ pc' = NextStage(stage)
              /\ result' = IF NextStage(stage) = "Done" THEN "undefined" ELSE result

\* A stage awaits: it stays under way.
Stays(stage) ==
    /\ active' = TRUE
    /\ UNCHANGED <<pc, result, ended, raised>>

(***************************************************************************)
(* 01 checkCredentials.                                                    *)
(***************************************************************************)
CheckAccess ==
    /\ pc = "CheckAccess"
    /\ \E status \in {200, 401} :
         /\ Starts("CheckAccess")
         /\ Ends("CheckAccess", status # 200)
    /\ UNCHANGED <<world, disk, dirExists, container, info, WARCs, pages, page, batch, stats>>

(***************************************************************************)
(* 02 createCollectionFolder.                                              *)
(***************************************************************************)
CollectionPath == "out/12345/"
CollectionWACZPath == "out/12345.wacz"
FallbackWACZPath == "out/archive.wacz"

EnsureWorkingDir ==
    /\ pc = "EnsureWorkingDir"
    /\ info' = [info EXCEPT !.collectionPath = CollectionPath]
    /\ Starts("EnsureWorkingDir")
    /\ \/ /\ dirExists                       \* access(W_OK) succeeds
          /\ UNCHANGED dirExists
          /\ Ends("EnsureWorkingDir", FALSE)
       \/ /\ ~dirExists                      \* mkdir succeeds
          /\ dirExists' = TRUE
          /\ Ends("EnsureWorkingDir", FALSE)
       \/ /\ UNCHANGED dirExists             \* not writable, or mkdir throws
          /\ Ends("EnsureWorkingDir", TRUE)
    /\ UNCHANGED <<world, disk, container, WARCs, pages, page, batch, stats>>

(***************************************************************************)
(* 03 fetchCollectionInfo.  A response is a status and the parsed list of  *)
(* collections; a metadata field is absent (has = FALSE) or a list.        *)
(***************************************************************************)
Field(has, list) == [has |-> has, list |-> list]

CollectionResponses ==
    { [status |-> 503, body |-> << >>],
      [status |-> 200, body |-> << >>],
      [status |-> 200, body |-> << [hasMetadata |-> FALSE,
                                    Title |-> Field(FALSE, << >>),
                                    Description |-> Field(FALSE, << >>)] >>],
      [status |-> 200, body |-> << [hasMetadata |-> TRUE,
                                    Title |-> Field(TRUE, << >>),
                                    Description |-> Field(FALSE, << >>)] >>],
      [status |-> 200, body |-> << [hasMetadata |-> TRUE,
                                    Title |-> Field(TRUE, <<"My collection">>),
                                    Description |-> Field(TRUE, << >>)] >>],
      [status |-> 200, body |-> << [hasMetadata |-> TRUE,
                                    Title |-> Field(TRUE, <<"My collection">>),
                                    Description |-> Field(TRUE, <<"About it">>)] >>] }

\* collection?.metadata?.X truthy (an empty list is truthy), then X[0].value.
FieldTruthy(resp, name) ==
    /\ resp.body # << >>
    /\ resp.body[1].hasMetadata
    /\ resp.body[1][name].has

FieldThrows(resp, name) == FieldTruthy(resp, name) /\ resp.body[1][name].list = << >>

FieldValue(resp, name, old) ==
    IF FieldTruthy(resp, name) /\ ~FieldThrows(resp, name)
      THEN resp.body[1][name].list[1] ELSE old

CollectionInfoThrows(resp) ==
    \/ resp.status # 200
    \/ FieldThrows(resp, "Title")
    \/ FieldThrows(resp, "Description")

\* A fetchCollectionInfo that leaves this.WACZPath unset.
CollectionInfoNoPath(resp, old) ==
    IF resp.status # 200 \/ FieldThrows(resp, "Title") THEN old
    ELSE IF FieldThrows(resp, "Description")
      THEN [old EXCEPT !.collectionTitle = FieldValue(resp, "Title", @)]
    ELSE [old EXCEPT !.collectionTitle = FieldValue(resp, "Title", @),
                     !.collectionDescription = FieldValue(resp, "Description", @)]

CollectionInfoAfter(resp, old) ==
    IF resp.status # 200 \/ FieldThrows(resp, "Title") THEN old
    ELSE IF FieldThrows(resp, "Description")
      THEN [old EXCEPT !.collectionTitle = FieldValue(resp, "Title", @)]
    ELSE [old EXCEPT !.collectionTitle = FieldValue(resp, "Title", @),
                     !.collectionDescription = FieldValue(resp, "Description", @),
                     !.WACZPath = CollectionWACZPath]

FetchCollectionInfo ==
    /\ pc = "FetchCollectionInfo"
    /\ \E resp \in CollectionResponses :
         /\ info' = CollectionInfoAfter(resp, info)
         /\ Starts("FetchCollectionInfo")
         /\ stats' = [stats EXCEPT !.answers = Append(@, resp)]
         /\ Ends("FetchCollectionInfo", CollectionInfoThrows(resp))
    /\ UNCHANGED <<world, disk, dirExists, container, WARCs, pages, page, batch>>

(***************************************************************************)
(* 04 fetchWARCsList: one step per page requested.                         *)
(***************************************************************************)
NewRef(entry) ==
    [downloadUrl |-> IF entry.locations # << >> THEN entry.locations[1] ELSE "",
     downloaded |-> FALSE,
     filename |-> entry.filename,
     remoteSHA1Hash |-> entry.sha1,
     localSHA1Hash |-> << >>,
     crawlId |-> entry.crawl,
     crawledUrls |-> << >>]

RefsOf(files) == [k \in 1..Len(files) |-> NewRef(ListingEntry(files[k]))]

BuildIndex ==
    /\ pc = "BuildIndex"
    /\ Starts("BuildIndex")
    /\ stats' = [stats EXCEPT !.asked = Append(@, page + 1)]
    /\ \E status \in {200, 500} :
         IF status # 200
           THEN /\ page' = 0
                /\ UNCHANGED WARCs
                /\ Ends("BuildIndex", TRUE)
           ELSE LET parsed == ListingPage(listing, page + 1) IN
                /\ WARCs' = WARCs \o RefsOf(parsed.files)
                /\ IF parsed.next
                     THEN page' = page + 1 /\ Stays("BuildIndex")
                     ELSE page' = 0 /\ Ends("BuildIndex", FALSE)
    /\ UNCHANGED <<world, disk, dirExists, container, info, pages, batch>>

(***************************************************************************)
(* Batched stages: a group of items is launched, every task settles on its *)
(* own, and the loop goes on once Promise.allSettled has resolved.         *)
(***************************************************************************)
\* A task is [st, sent]: its state and, for a download, the chunks written so far.
InFlight == {k \in 1..Len(tasks) : tasks[k].st \in {"pending", "fetching", "writing"}}
AllSettled == InFlight = {}
SomeRejected == \E k \in 1..Len(tasks) : tasks[k].st = "rejected"

\* group.length < concurrency and group.length >= concurrency.
HasRoom(g) == 2 * Len(g) < concurrency
IsFull(g) == 2 * Len(g) >= concurrency

\* The loop of a batched stage goes on, from index `from`, to its next launch
\* (r.launch) or to its end; the logger may throw while the rejected results of
\* the group just settled are logged.
Batched(stage, r, fresh) ==
    /\ pc = stage
    /\ Starts(stage)
    /\ ~active \/ AllSettled
    /\ \/ /\ r.launch
          /\ i' = r.i
          /\ group' = r.group
          /\ tasks' = [k \in 1..Len(r.group) |-> [st |-> fresh, sent |-> 0]]
          /\ settled' = IF active THEN settled ELSE {}
          /\ Stays(stage)
       \/ /\ ~r.launch
          /\ i' = 0 /\ group' = << >> /\ tasks' = << >>
          /\ settled' = {}
          /\ Ends(stage, FALSE)
       \/ /\ active /\ SomeRejected
          /\ i' = 0 /\ group' = << >> /\ tasks' = << >>
          /\ settled' = {}
          /\ Ends(stage, TRUE)

(***************************************************************************)
(* 05 fetchWARCsCrawlInfo.                                                 *)
(***************************************************************************)
RECURSIVE CrawlInfoLoop(_, _)
CrawlInfoLoop(from, g) ==
    IF from > Len(WARCs) THEN [i |-> from, group |-> g, launch |-> FALSE]
    ELSE LET g2 == IF HasRoom(g) THEN Append(g, from) ELSE g IN
         IF IsFull(g2) \/ from = Len(WARCs)
           THEN [i |-> from, group |-> g2, launch |-> TRUE]
           ELSE CrawlInfoLoop(from + 1, g2)

NewCrawledUrl(seed) ==
    [seedId |-> seed.seed_id, url |-> seed.seed, timestamp |-> seed.timestamp, title |-> ""]

\* A loop over the report that stops after its first record.
CrawledUrlsOfFirst(report) ==
    [k \in 1..(IF Len(report) > 0 THEN 1 ELSE 0) |-> NewCrawledUrl(report[k])]

CrawledUrlsOf(report) == [k \in 1..Len(report) |-> NewCrawledUrl(report[k])]

EnrichCrawlInfo ==
    /\ Batched("EnrichCrawlInfo", CrawlInfoLoop(i + 1, << >>), "pending")
    /\ UNCHANGED <<world, disk, dirExists, container, info, WARCs, pages, page, stats>>

\* fetchOne(ref) settles; the report of an absent crawl id is never served.
CrawlInfoTask ==
    /\ pc = "EnrichCrawlInfo" /\ active
    /\ \E k \in InFlight, status \in {200, 404} :
         LET ref == group[k] IN
         /\ status = 200 => WARCs[ref].crawlId # 0
         /\ IF status = 200
              THEN /\ WARCs' = [WARCs EXCEPT ![ref].crawledUrls =
                                   @ \o CrawledUrlsOf(SeedReport(WARCs[ref].crawlId))]
                   /\ tasks' = [tasks EXCEPT ![k].st = "fulfilled"]
                   /\ settled' = settled \cup {<<ref, "fulfilled">>}
                   /\ UNCHANGED stats
              ELSE /\ tasks' = [tasks EXCEPT ![k].st = "rejected"]
                   /\ settled' = settled \cup {<<ref, "rejected">>}
                   /\ Faults(IF WARCs[ref].crawlId # 0 THEN 1 ELSE 0)
                   /\ UNCHANGED WARCs
    /\ UNCHANGED <<world, disk, dirExists, container, info, pages, page, i, group,
                   pc, active, result, trace, ended, raised>>

(***************************************************************************)
(* 06 fetchCrawledUrlsTitle.  An item is <<ref, index in crawledUrls>>.    *)
(***************************************************************************)
MISSING_URLS_PATCH == "MISSING_URLS_PATCH"
\* A test that takes no reference for a patch.
IsPatchNever(ref) == FALSE

IsPatch(ref) == Includes(ref.filename, MISSING_URLS_PATCH)

\* The inner loop over ref.crawledUrls: push while there is room, break when full.
RECURSIVE FillGroup(_, _, _)
FillGroup(ref, ii, g) ==
    IF ii > Len(WARCs[ref].crawledUrls) THEN g
    ELSE LET g2 == IF HasRoom(g) THEN Append(g, <<ref, ii>>) ELSE g IN
         IF IsFull(g2) THEN g2 ELSE FillGroup(ref, ii + 1, g2)

\* The launch test of the outer loop: group.length >= concurrency || i >= WARCs.length,
\* with i the 0-based index of the reference at hand.
TitleLaunch(from, g) == IsFull(g) \/ from - 1 >= Len(WARCs)

RECURSIVE TitleLoop(_, _)
TitleLoop(from, g) ==
    IF from > Len(WARCs) THEN [i |-> from, group |-> g, launch |-> FALSE]
    ELSE IF IsPatch(WARCs[from]) THEN TitleLoop(from + 1, g)
    ELSE LET g2 == FillGroup(from, 1, g) IN
         IF TitleLaunch(from, g2)
           THEN [i |-> from, group |-> g2, launch |-> TRUE]
           ELSE TitleLoop(from + 1, g2)

ResolveTitles ==
    /\ Batched("ResolveTitles", TitleLoop(i + 1, << >>), "pending")
    /\ UNCHANGED <<world, disk, dirExists, container, info, WARCs, pages, page, stats>>

SENTINEL_TITLE == "Archive-it Wayback"

\* What the replay page may give: a <title>, the placeholder <title>, nothing usable.
WaybackOutcomes == {"Scraped title", SENTINEL_TITLE, ""}

\* First attempt: seed metadata ("" when no seedId, no title, or the request failed).
MetaTitle(crawl, seedOk) ==
    IF crawl.seedId # 0 /\ seedOk THEN SeedMetaTitle(crawl.seedId) ELSE ""

\* Second attempt: title = title === 'Archive-it Wayback' ? null : <title> text.
WaybackTitle(title, scraped) == IF title = SENTINEL_TITLE THEN "" ELSE scraped

\* crawl.timestamp.substring(...) throws outside any try block on a null timestamp.
TitleThrows(crawl, seedOk) == MetaTitle(crawl, seedOk) = "" /\ crawl.timestamp = << >>

\* The replay page is requested: no title so far, and the URL could be built.
WaybackAsked(crawl, seedOk) == MetaTitle(crawl, seedOk) = "" /\ ~TitleThrows(crawl, seedOk)

TitleFound(crawl, seedOk, scraped) ==
    IF MetaTitle(crawl, seedOk) # "" THEN MetaTitle(crawl, seedOk)
    ELSE IF scraped = "" THEN "" ELSE WaybackTitle(MetaTitle(crawl, seedOk), scraped)

\* An assignment of crawl.title whatever was found.
TitleAssigned(ws, ref, ii, title) == [ws EXCEPT ![ref].crawledUrls[ii].title = title]

\* if (title) { crawl.title = title }
WithTitle(ws, ref, ii, title) ==
    IF title # "" THEN [ws EXCEPT ![ref].crawledUrls[ii].title = title] ELSE ws

\* fetchOne(crawl) settles.
TitleTask ==
    /\ pc = "ResolveTitles" /\ active
    /\ \E k \in InFlight, seedOk \in BOOLEAN, scraped \in WaybackOutcomes :
         LET ref == group[k][1]
             ii == group[k][2]
             crawl == WARCs[ref].crawledUrls[ii]
             title == TitleFound(crawl, seedOk, scraped)
         IN
         /\ crawl.seedId = 0 => seedOk
         /\ MetaTitle(crawl, seedOk) # "" \/ TitleThrows(crawl, seedOk) => scraped = ""
         /\ IF TitleThrows(crawl, seedOk)
              THEN /\ tasks' = [tasks EXCEPT ![k].st = "rejected"]
                   /\ settled' = settled \cup {<<group[k], "rejected">>}
                   /\ UNCHANGED WARCs
              ELSE /\ tasks' = [tasks EXCEPT ![k].st = "fulfilled"]
                   /\ settled' = settled \cup {<<group[k], "fulfilled">>}
                   /\ WARCs' = WithTitle(WARCs, ref, ii, title)
         /\ LET n == (IF seedOk THEN 0 ELSE 1) +
                     (IF WaybackAsked(crawl, seedOk) /\ scraped # "Scraped title"
                        THEN 1 ELSE 0)
                entry ==
                   [item |-> group[k],
                    metaAsked |-> crawl.seedId # 0,
                    meta |-> MetaTitle(crawl, seedOk),
                    waybackAsked |-> WaybackAsked(crawl, seedOk),
                    scraped |-> scraped,
                    title |-> IF TitleThrows(crawl, seedOk) THEN "" ELSE title]
            IN /\ stats.failures + n <= stats.budget
               /\ stats' = [stats EXCEPT !.failures = @ + n,
                                         !.titleLog = @ \cup {entry},
                                         !.titleTasks = @ + 1]
    /\ UNCHANGED <<world, disk, dirExists, container, info, pages, page, i, group,
                   pc, active, result, trace, ended, raised>>

(***************************************************************************)
(* 07 deleteLooseWARCs.                                                    *)
(***************************************************************************)
WARC_GZ == ".warc.gz"

InCollection(f) == \E k \in 1..Len(WARCs) : WARCs[k].filename = f

\* A loop that skips every .warc.gz entry, listed or not.
KeptWhenCapture(f) == EndsWith(f, WARC_GZ)

\* The entries of the folder the loop skips (continue); it removes all others.
KeptByDeleteLoose(f) == EndsWith(f, WARC_GZ) /\ InCollection(f)

\* An rm that removes nothing.
WithoutNothing(d, gone) == d

Without(d, gone) == [f \in DOMAIN d \ gone |-> d[f]]

\* A catch block that empties the collection folder before returning.
AfterAbortCleaned(d) == << >>

\* The catch block of a gating stage: log, return false; the folder is as the
\* stage left it.
AfterAbort(d) == d

DeleteLoose ==
    /\ pc = "DeleteLoose"
    /\ Starts("DeleteLoose")
    /\ LET doomed == {f \in DOMAIN disk : ~KeptByDeleteLoose(f)} IN
       \E gone \in SUBSET doomed, threw \in BOOLEAN :
         /\ gone # doomed => threw          \* an rm threw: the rest is left
         /\ doomed # {} /\ gone = doomed => ~threw
         /\ disk' = IF threw THEN AfterAbort(Without(disk, gone)) ELSE Without(disk, gone)
         /\ Ends("DeleteLoose", threw)
    /\ UNCHANGED <<world, dirExists, container, info, WARCs, pages, page, batch, stats>>

(***************************************************************************)
(* 08 and 10 checkWARCsHashes.  unreadable: the entries whose readFile     *)
(* throws; rmThrows: the first rm of the pass throws.                      *)
(***************************************************************************)
\* An rm after which the reference keeps its flag.
AfterRemovalUnmarked(ws, k) == ws

\* entry.downloaded = false, once the local copy has been removed.
AfterRemoval(ws, k) == [ws EXCEPT ![k].downloaded = FALSE]

RECURSIVE CheckHashes(_, _, _, _, _)
CheckHashes(k, ws, d, unreadable, rmThrows) ==
    IF k > Len(ws) THEN [WARCs |-> ws, disk |-> d, threw |-> FALSE]
    ELSE LET f == ws[k].filename IN
         IF f \notin DOMAIN d
           THEN CheckHashes(k + 1, [ws EXCEPT ![k].downloaded = FALSE], d, unreadable, rmThrows)
           ELSE LET hashed == IF k \in unreadable
                                THEN [ws EXCEPT ![k].downloaded = FALSE]
                                ELSE [ws EXCEPT ![k].downloaded = TRUE,
                                                ![k].localSHA1Hash = Sha1(d[f])]
                    local == hashed[k].localSHA1Hash
                IN IF local # << >> /\ local # hashed[k].remoteSHA1Hash
                     THEN IF rmThrows
                            THEN [WARCs |-> hashed, disk |-> d, threw |-> TRUE]
                            ELSE CheckHashes(k + 1, AfterRemoval(hashed, k),
                                             Without(d, {f}), unreadable, rmThrows)
                     ELSE CheckHashes(k + 1, hashed, d, unreadable, rmThrows)

VerifyChecksums(stage) ==
    /\ pc = stage
    /\ Starts(stage)
    /\ \E unreadable \in SUBSET {k \in 1..Len(WARCs) : WARCs[k].filename \in DOMAIN disk},
          rmThrows \in BOOLEAN :
         LET r == CheckHashes(1, WARCs, disk, unreadable, rmThrows) IN
         /\ rmThrows => r.threw
         /\ WARCs' = r.WARCs
         /\ disk' = IF r.threw THEN AfterAbort(r.disk) ELSE r.disk
         /\ stats.failures + Cardinality(unreadable) <= stats.budget
         /\ stats' = [stats EXCEPT !.failures = @ + Cardinality(unreadable),
                                   !.hashErrors = @ + Cardinality(unreadable),
                                   !.unread = unreadable]
         /\ Ends(stage, r.threw)
    /\ UNCHANGED <<world, dirExists, container, info, pages, page, batch>>

VerifyChecksums1 == VerifyChecksums("VerifyChecksums1")
VerifyChecksums2 == VerifyChecksums("VerifyChecksums2")

(***************************************************************************)
(* 09 fetchWARCs.                                                          *)
(***************************************************************************)
RECURSIVE DownloadLoop(_, _)
DownloadLoop(from, g) ==
    IF from > Len(WARCs) THEN [i |-> from, group |-> g, launch |-> FALSE]
    ELSE LET g2 == IF HasRoom(g) /\ WARCs[from].downloaded = FALSE THEN Append(g, from) ELSE g IN
         IF IsFull(g2) \/ from = Len(WARCs)
           THEN [i |-> from, group |-> g2, launch |-> TRUE]
           ELSE DownloadLoop(from + 1, g2)

FetchMissing ==
    /\ Batched("FetchMissing", DownloadLoop(i + 1, << >>), "fetching")
    /\ stats' = [stats EXCEPT !.downloads = @ + Len(tasks')]
    /\ disk' = IF pc' = "Done" THEN AfterAbort(disk) ELSE disk
    /\ UNCHANGED <<world, dirExists, container, info, WARCs, pages, page>>

\* The file served at a download location.
Served(url, f) ==
    IF ListingEntry(f).locations # << >> /\ url = ListingEntry(f).locations[1]
      THEN RemoteContent(f) ELSE << >>

\* fetchOne(ref): the response arrives (fetch of a null location throws).
DownloadResponse ==
    /\ pc = "FetchMissing" /\ active
    /\ \E k \in InFlight, status \in {200, 503} :
         LET ref == WARCs[group[k]] IN
         /\ tasks[k].st = "fetching"
         /\ ref.downloadUrl = "" => status # 200
         /\ IF status = 200
              THEN /\ tasks' = [tasks EXCEPT ![k].st = "writing"]
                   /\ UNCHANGED <<settled, stats>>
              ELSE /\ tasks' = [tasks EXCEPT ![k].st = "rejected"]
                   /\ settled' = settled \cup {<<group[k], "rejected">>}
                   /\ Faults(IF ref.downloadUrl # "" THEN 1 ELSE 0)
    /\ UNCHANGED <<world, disk, dirExists, container, info, WARCs, pages, page, i, group,
                   pc, active, result, trace, ended, raised>>

AppendFile(d, f, chunk) ==
    [g \in DOMAIN d \cup {f} |->
        IF g = f THEN (IF f \in DOMAIN d THEN Append(d[f], chunk) ELSE <<chunk>>) ELSE d[g]]

\* fetchOne(ref): the next chunk of the body is appended to the file, or the write fails.
DownloadChunk ==
    /\ pc = "FetchMissing" /\ active
    /\ \E k \in InFlight, ok \in BOOLEAN :
         LET ref == WARCs[group[k]]
             body == Served(ref.downloadUrl, ref.filename)
             last == tasks[k].sent + 1 = Len(body)
         IN
         /\ tasks[k].st = "writing"
         /\ IF ok
              THEN /\ disk' = AppendFile(disk, ref.filename, body[tasks[k].sent + 1])
                   /\ tasks' = [tasks EXCEPT ![k].sent = @ + 1,
                                             ![k].st = IF last THEN "fulfilled" ELSE @]
                   /\ settled' = IF last THEN settled \cup {<<group[k], "fulfilled">>} ELSE settled
                   /\ UNCHANGED stats
              ELSE /\ tasks' = [tasks EXCEPT ![k].st = "rejected"]
                   /\ settled' = settled \cup {<<group[k], "rejected">>}
                   /\ Faults(1)
                   /\ UNCHANGED disk
    /\ UNCHANGED <<world, dirExists, container, info, WARCs, pages, page, i, group,
                   pc, active, result, trace, ended, raised>>

(***************************************************************************)
(* 11 generatePagesList.                                                   *)
(***************************************************************************)
Dates == {"2021-04-30", "1999-12-31"}
Times == {"20:04:57", "23:59:59"}
Fractions == {".635000", ".000000"}

\* A replace that leaves the text as it is.
KeepSpaces(ts) == ts

\* timestamp.replace(' ', 'T'): the first space only.
ReplaceFirstSpace(ts) ==
    [k \in 1..Len(ts) |->
        IF ts[k] = " " /\ (\A j \in 1..(k - 1) : ts[j] # " ") THEN "T" ELSE ts[k]]

\* new Date(text) is a valid date.
IsDateText(text) ==
    /\ Len(text) = 5
    /\ text[1] \in Dates /\ text[2] = "T" /\ text[3] \in Times
    /\ text[4] \in Fractions /\ text[5] = "Z"

\* Null (<< >>) when the timestamp is null or not a date.
FormatTimestamp(ts) ==
    IF ts = << >> THEN << >>
    ELSE LET text == Append(ReplaceFirstSpace(ts), "Z") IN
         IF IsDateText(text) THEN <<text[1], "T", text[3], "Z">> ELSE << >>

RECURSIVE PagesOfRef(_, _)
PagesOfRef(crawls, k) ==
    IF k > Len(crawls) THEN << >>
    ELSE IF crawls[k].title = "" THEN PagesOfRef(crawls, k + 1)
    ELSE <<[url |-> crawls[k].url, title |-> crawls[k].title,
            ts |-> FormatTimestamp(crawls[k].timestamp)]>> \o PagesOfRef(crawls, k + 1)

RECURSIVE PagesList(_, _)
PagesList(ws, k) ==
    IF k > Len(ws) THEN << >>
    ELSE IF IsPatch(ws[k]) THEN PagesList(ws, k + 1)
    ELSE PagesOfRef(ws[k].crawledUrls, 1) \o PagesList(ws, k + 1)

\* A generatePagesList that keeps the entries this.pages already holds.
PagesAppended(old, ws) == old \o PagesList(ws, 1)

\* this.pages = [], then one push per titled page.
PagesAfter(old, ws) == PagesList(ws, 1)

BuildPageIndex ==
    /\ pc = "BuildPageIndex"
    /\ pages' = PagesAfter(pages, WARCs)
    /\ Starts("BuildPageIndex")
    /\ Ends("BuildPageIndex", FALSE)
    /\ UNCHANGED <<world, disk, dirExists, container, info, WARCs, page, batch, stats>>

(***************************************************************************)
(* 12 generateWACZ (the WACZ library writes the file, or throws).          *)
(***************************************************************************)
AssembleContainer ==
    /\ pc = "AssembleContainer"
    /\ Starts("AssembleContainer")
    /\ LET out == IF info.WACZPath = "" THEN FallbackWACZPath ELSE info.WACZPath IN
       /\ info' = [info EXCEPT !.WACZPath = out]
       /\ \E ok \in BOOLEAN :
            /\ container' = IF ok
                              THEN << [input |-> <<info.collectionPath, "*", WARC_GZ>>,
                                       output |-> out,
                                       title |-> info.collectionTitle,
                                       description |-> info.collectionDescription,
                                       pages |-> pages] >>
                              ELSE container
            /\ disk' = IF ok THEN disk ELSE AfterAbort(disk)
            /\ Ends("AssembleContainer", ~ok)
    /\ UNCHANGED <<world, dirExists, WARCs, pages, page, batch, stats>>

(***************************************************************************)
(* printReport, then process() returns.                                    *)
(***************************************************************************)
Report ==
    /\ pc = "Report"
    /\ Starts("Report")
    /\ Ends("Report", FALSE)
    /\ UNCHANGED <<world, disk, dirExists, container, info, WARCs, pages, page, batch, stats>>

Next ==
    \/ CheckAccess
    \/ EnsureWorkingDir
    \/ FetchCollectionInfo
    \/ BuildIndex
    \/ EnrichCrawlInfo
    \/ CrawlInfoTask
    \/ ResolveTitles
    \/ TitleTask
    \/ DeleteLoose
    \/ VerifyChecksums1
    \/ FetchMissing
    \/ DownloadResponse
    \/ DownloadChunk
    \/ VerifyChecksums2
    \/ BuildPageIndex
    \/ AssembleContainer
    \/ Report

Spec == Init /\ [][Next]_vars

(***************************************************************************)
(* process() is run a second time after a run that went through without a  *)
(* fault: by the same extractor object, or by a new one built from the     *)
(* same options (a second invocation of the CLI).                          *)
(***************************************************************************)
ProcessAgain ==
    /\ pc = "Done" /\ result = "undefined"
    /\ prev = << >>
    /\ stats.failures = 0
    /\ \E same \in BOOLEAN :
         /\ prev' = << [disk |-> disk, pages |-> pages, sameInstance |-> same,
                        complete |-> \A k \in 1..Len(WARCs) : WARCs[k].downloaded] >>
         /\ IF same
              THEN UNCHANGED <<WARCs, pages, info>>
              ELSE WARCs' = << >> /\ pages' = << >> /\ info' = NoInfo
    /\ pc' = "CheckAccess"
    /\ result' = "none"
    /\ trace' = << >> /\ ended' = << >> /\ raised' = {} /\ settled' = {}
    /\ stats' = NewStats
    /\ disk0' = disk
    /\ UNCHANGED <<listing, concurrency, options, disk, dirExists, container, active,
                   page, i, group, tasks>>

NextTwice == Next \/ ProcessAgain

SpecTwice == Init /\ [][NextTwice]_vars

(***************************************************************************)
(* new ArchiveItExtractor(options), then process() on the instance: the    *)
(* collection lists one file and the working directory is empty.           *)
(***************************************************************************)
Construct ==
    /\ pc = "Construct"
    /\ concurrency' = StoredConcurrency(options.concurrency)
    /\ pc' = IF ConstructorThrows(options) THEN "Thrown" ELSE "CheckAccess"
    /\ UNCHANGED <<listing, disk0, options, prev, disk, dirExists, container, info, WARCs,
                   pages, active, result, page, batch, trace, ended, raised, stats>>

InitConstruct ==
    /\ listing = <<F_One>>
    /\ disk = << >>
    /\ dirExists \in BOOLEAN
    /\ container = << >>
    /\ options \in OptionInputs
    /\ concurrency = 2 * DEFAULT_CONCURRENCY
    /\ info = NoInfo
    /\ WARCs = << >>
    /\ pages = << >>
    /\ pc = "Construct"
    /\ active = FALSE
    /\ result = "none"
    /\ page = 0
    /\ i = 0
    /\ group = << >>
    /\ tasks = << >>
    /\ trace = << >>
    /\ ended = << >>
    /\ raised = {}
    /\ settled = {}
    /\ disk0 = disk
    /\ stats = NewStats
    /\ prev = << >>

NextConstruct == Construct \/ Next

SpecConstruct == InitConstruct /\ [][NextConstruct]_vars

(***************************************************************************)
(* Properties of process().                                                *)
(***************************************************************************)
IsPrefix(s, t) == Len(s) <= Len(t) /\ \A k \in 1..Len(s) : s[k] = t[k]

\* The value process() resolved to, as an `if` reads it.
Truthy(r) == r \notin {"false", "undefined", "none"}

\* process() went through Report and returned.
Finished == pc = "Done" /\ result # "false"

\* C1: process() returns a truthy value when every stage through Report has
\* completed and a falsy value when a gating stage failed.
C1_TruthyExactlyOnSuccess ==
    pc = "Done" => (Truthy(result) <=> (Len(ended) > 0 /\ ended[Len(ended)] = "Report"))

ClaimedOrder ==
    <<"CheckAccess", "EnsureWorkingDir", "FetchCollectionInfo", "BuildIndex",
      "EnrichCrawlInfo", "ResolveTitles", "DeleteLoose", "VerifyChecksums1",
      "FetchMissing", "VerifyChecksums2", "BuildPageIndex", "AssembleContainer",
      "Report">>

\* C2: the stages start in the fixed order, each one after the previous one has
\* finished and none skipped; a run that goes through has started and finished
\* all thirteen, with one checksum pass right before FetchMissing and one right
\* after it.
C2_FixedStageOrder ==
    /\ IsPrefix(trace, ClaimedOrder)
    /\ IsPrefix(ended, trace)
    /\ Len(trace) <= Len(ended) + 1
    /\ active => Len(trace) = Len(ended) + 1
    /\ Finished => ended = ClaimedOrder

C2_AllStagesRan == Finished /\ trace = ClaimedOrder /\ stats.downloads > 0

GatingStages ==
    {"CheckAccess", "EnsureWorkingDir", "FetchCollectionInfo", "BuildIndex", "DeleteLoose",
     "VerifyChecksums1", "VerifyChecksums2", "FetchMissing", "BuildPageIndex",
     "AssembleContainer"}

\* C3: when a gating stage raises an error process() stops: that stage is the
\* last one started in the run and the result is failure.
C3_GatingStageStops ==
    \A stage \in GatingStages :
        stage \in raised =>
            /\ pc = "Done" /\ result = "false"
            /\ ended = trace
            /\ trace[Len(trace)] = stage

C3_SecondPassRaised == "VerifyChecksums2" \in raised /\ pc = "Done"

\* C4 as stated: after an error raised by EnrichCrawlInfo or by ResolveTitles
\* process() does not stop before DeleteLoose.
C4_EnrichmentErrorsContinue ==
    \A stage \in {"EnrichCrawlInfo", "ResolveTitles"} :
        stage \in raised => result # "false" \/ "DeleteLoose" \in Range(trace)

\* C4 amended: an error raised by ResolveTitles does not abort, process() goes
\* on to DeleteLoose; an error raised by EnrichCrawlInfo aborts, EnrichCrawlInfo
\* is the last stage of the run and the result is failure.
C4_OnlyTitleErrorsContinue ==
    /\ "ResolveTitles" \in raised => pc = "DeleteLoose" \/ "DeleteLoose" \in Range(trace)
    /\ "EnrichCrawlInfo" \in raised =>
           /\ pc = "Done" /\ result = "false"
           /\ trace[Len(trace)] = "EnrichCrawlInfo"

C4_WentOnAfterTitleError == "ResolveTitles" \in raised /\ Finished /\ ended = ClaimedOrder

(***************************************************************************)
(* Properties of the working directory.                                    *)
(***************************************************************************)
Listed(f) == \E k \in 1..Len(listing) : listing[k] = f
RefsOfFile(f) == {k \in 1..Len(WARCs) : WARCs[k].filename = f}
Valid(d, f) == f \in DOMAIN d /\ Sha1(d[f]) = ListingEntry(f).sha1
HasLocation(f) == ListingEntry(f).locations # << >>

\* C5: a second run against the unchanged collection, after a first run in
\* which every download succeeded, leaves the working directory and the page
\* index as the first run left them and launches no download task, whatever
\* the filenames of the listing.
C5_SecondRunChangesNothing ==
    (/\ prev # << >> /\ prev[1].complete /\ ~prev[1].sameInstance
     /\ Finished /\ stats.failures = 0)
        => /\ disk = prev[1].disk
           /\ pages = prev[1].pages
           /\ stats.downloads = 0

\* A is on disk and not listed, B is listed and not on disk, when the run begins.
Reconciled(A, B) ==
    /\ A \in DOMAIN disk0 /\ EndsWith(A, WARC_GZ) /\ ~Listed(A)
    /\ Listed(B) /\ B \notin DOMAIN disk0

Corrupt(f) == Listed(f) /\ f \in DOMAIN disk0 /\ ~Valid(disk0, f)

\* The items of the group(s) launched in the batched stage under way that settled.
SettledItems == {s[1] : s \in settled}

C8_OneFileOnePage ==
    (Finished /\ listing = <<F_One>> /\ concurrency % 2 = 0 /\ stats.failures = 0)
        => pages = << [url |-> "https://example.com", title |-> "Example",
                       ts |-> <<"2021-04-30", "T", "20:04:57", "Z">>] >>

(***************************************************************************)
(* Properties of the batched stages.                                       *)
(***************************************************************************)
\* The loop of the batched stage under way has nothing left to launch and every
\* task it launched has settled.
BatchOver(stage, r) == pc = stage /\ active /\ AllSettled /\ ~r.launch

TitleItems ==
    {<<r, ii>> \in (1..Len(WARCs)) \X (1..2) :
        ~IsPatch(WARCs[r]) /\ ii <= Len(WARCs[r].crawledUrls)}

\* C9: in a batched stage in which a task failed, every item of the input of
\* the stage has settled when the stage is over (integral concurrency).
C9_EveryItemSettles ==
    ((\E s \in settled : s[2] = "rejected") /\ concurrency % 2 = 0) =>
        /\ BatchOver("EnrichCrawlInfo", CrawlInfoLoop(i + 1, << >>))
               => SettledItems = 1..Len(WARCs)
        /\ BatchOver("ResolveTitles", TitleLoop(i + 1, << >>))
               => SettledItems = TitleItems
        /\ BatchOver("FetchMissing", DownloadLoop(i + 1, << >>))
               => SettledItems = {k \in 1..Len(WARCs) : ~WARCs[k].downloaded}

\* C10: never more than `concurrency` tasks in flight (concurrency is held in
\* halves).
C10_AtMostConcurrencyInFlight == 2 * Cardinality(InFlight) <= concurrency

(***************************************************************************)
(* Properties of title resolution and of the page index.                   *)
(***************************************************************************)
\* The pages for which a title task settled in this run.
AttemptedItems == {e.item : e \in stats.titleLog}

\* C11: when ResolveTitles has finished, a title task has run exactly once for
\* every page of every reference that is not a MISSING_URLS_PATCH file, and for
\* no page of a reference that is one (integral concurrency).
C11_EveryPageAttemptedOnce ==
    ("ResolveTitles" \in Range(ended) /\ "ResolveTitles" \notin raised
       /\ concurrency % 2 = 0)
        => /\ AttemptedItems = TitleItems
           /\ stats.titleTasks = Cardinality(TitleItems)

\* C12: every title task that ran took the seed-metadata title when it got one,
\* without requesting the replay page; when it got none it requested the replay
\* page and took the scraped <title> text, or nothing when scraping failed.
C12_MetadataThenReplay ==
    \A e \in stats.titleLog :
        /\ e.meta # "" => e.title = e.meta /\ ~e.waybackAsked
        /\ e.meta = "" => e.waybackAsked /\ e.title = e.scraped

(***************************************************************************)
(* generatePagesList() on its own: called on references whose pages hold   *)
(* any mix of titles and of raw timestamps, those of a MISSING_URLS_PATCH   *)
(* file included.                                                          *)
(***************************************************************************)
PageTitles == {"", "A title"}
RawTimestamps == {<< >>, TS_Bad, TS_Good, TS_Other}

TitledUrls(report) ==
    {[k \in 1..Len(report) |->
         [NewCrawledUrl(report[k]) EXCEPT !.title = t[k][1], !.timestamp = t[k][2]]] :
        t \in [1..Len(report) -> PageTitles \X RawTimestamps]}

TitledRefs ==
    UNION {{[NewRef(ListingEntry(f)) EXCEPT !.crawledUrls = urls] :
               urls \in TitledUrls(SeedReport(ListingEntry(f).crawl))} :
           f \in {F_One, F_Two, F_Patch}}

InitPages ==
    /\ listing = << >>
    /\ disk = << >>
    /\ dirExists = TRUE
    /\ container = << >>
    /\ options = ValidOptions(Num(0))
    /\ concurrency = StoredConcurrency(options.concurrency)
    /\ info = [NoInfo EXCEPT !.collectionPath = CollectionPath,
                             !.WACZPath = CollectionWACZPath]
    /\ WARCs \in SeqsUpTo(TitledRefs, MaxListing)
    /\ pages = << >>
    /\ pc = "BuildPageIndex"
    /\ active = FALSE
    /\ result = "none"
    /\ page = 0
    /\ i = 0
    /\ group = << >>
    /\ tasks = << >>
    /\ trace = SubSeq(StageOrder, 1, StageNo("BuildPageIndex") - 1)
    /\ ended = trace
    /\ raised = {}
    /\ settled = {}
    /\ disk0 = disk
    /\ stats = NewStats
    /\ prev = << >>

\* generatePagesList() called once more on the instance, this.WARCs unchanged.
RebuildPageIndex ==
    /\ pc = "AssembleContainer" /\ ~active
    /\ pages' = PagesAfter(pages, WARCs)
    /\ pc' = "Rebuilt"
    /\ UNCHANGED <<world, disk, dirExists, container, info, WARCs, page, batch, stats,
                   active, result, trace, ended, raised>>

NextPages == BuildPageIndex \/ RebuildPageIndex

SpecPages == InitPages /\ [][NextPages]_vars

\* The page index has been built in this run.
PageIndexBuilt == "BuildPageIndex" \in Range(ended)

NamedPatch(k) == Includes(WARCs[k].filename, "MISSING_URLS_PATCH")

TitledPages(k) ==
    {ii \in 1..Len(WARCs[k].crawledUrls) : WARCs[k].crawledUrls[ii].title # ""}

RECURSIVE TitledCount(_)
TitledCount(k) ==
    IF k = 0 THEN 0
    ELSE TitledCount(k - 1) + (IF NamedPatch(k) THEN 0 ELSE Cardinality(TitledPages(k)))

\* C13: after BuildPageIndex no page entry comes from a page without a title,
\* and a MISSING_URLS_PATCH reference contributes none whatever its pages hold:
\* the index has one entry per titled page of the other references, each with
\* the url and title of such a page.
C13_NoUntitledNoPatchEntries ==
    PageIndexBuilt =>
        /\ Len(pages) = TitledCount(Len(WARCs))
        /\ \A n \in 1..Len(pages) :
              /\ pages[n].title # ""
              /\ \E k \in 1..Len(WARCs) :
                    /\ ~NamedPatch(k)
                    /\ \E ii \in TitledPages(k) :
                          /\ WARCs[k].crawledUrls[ii].url = pages[n].url
                          /\ WARCs[k].crawledUrls[ii].title = pages[n].title

C13_TitledPatchLeftOut ==
    /\ PageIndexBuilt
    /\ pages # << >>
    /\ \E k \in 1..Len(WARCs) : NamedPatch(k) /\ TitledPages(k) # {}
    /\ \E k \in 1..Len(WARCs) :
          ~NamedPatch(k) /\ TitledPages(k) # {}
              /\ TitledPages(k) # 1..Len(WARCs[k].crawledUrls)

\* C14: every entry of the page index handed to container assembly has a
\* normalized timestamp that is not null; a titled page whose timestamp is null
\* or is not a date gives no entry.
C14_EveryEntryHasTimestamp ==
    (PageIndexBuilt /\ pc = "AssembleContainer") =>
        \A n \in 1..Len(pages) : pages[n].ts # << >>

(* Properties of the listing, of the paths and of the configuration. *)
DestructiveStages == {"DeleteLoose", "VerifyChecksums1", "FetchMissing", "VerifyChecksums2"}

\* C15: when a page of the remote file listing answers with a status other
\* than 200, BuildIndex fails as a whole: the run stops with false, DeleteLoose,
\* VerifyChecksums and FetchMissing never run in it, and the working directory
\* holds what it held when the run began.
C15_NoDeletionFromPartialListing ==
    "BuildIndex" \in raised =>
        /\ Range(trace) \cap DestructiveStages = {}
        /\ pc = "Done" /\ result = "false"
        /\ disk = disk0

C15_PartialListingRaised ==
    /\ "BuildIndex" \in raised
    /\ pc = "Done"
    /\ WARCs # << >>
    /\ \E f \in DOMAIN disk0 : \A k \in 1..Len(WARCs) : WARCs[k].filename # f

\* An earlier run was interrupted while it downloaded f: the first chunk only
\* is on disk.
LeftPartial(f) ==
    Listed(f) /\ f \in DOMAIN disk0 /\ disk0[f] = SubSeq(RemoteContent(f), 1, 1)

\* C16: a partial file left for a listed file by an interrupted download is
\* gone when the download stage begins, and once the download task of the file
\* has fulfilled the file is whole, with the remote checksum (file listed once,
\* integral concurrency).
C16_ResumeFromPartial ==
    \A f \in Filenames :
        (LeftPartial(f) /\ Cardinality(RefsOfFile(f)) = 1 /\ concurrency % 2 = 0) =>
            /\ (pc = "FetchMissing" /\ ~active) => f \notin DOMAIN disk
            /\ (pc = "FetchMissing" /\ active /\ AllSettled
                  /\ \E k \in RefsOfFile(f) : <<k, "fulfilled">> \in settled)
                   => Valid(disk, f)

\* C17: whenever AssembleContainer runs, the container is written to
\* <outputPath>/<collectionId>.wacz, never to the fallback archive.wacz, and from
\* EnsureWorkingDir on the working directory is <outputPath>/<collectionId>/.
C17_ContainerPathFromCollectionId ==
    /\ "EnsureWorkingDir" \in Range(ended) => info.collectionPath = CollectionPath
    /\ (pc = "AssembleContainer" \/ "AssembleContainer" \in Range(trace)) =>
           /\ info.WACZPath = CollectionWACZPath
           /\ info.WACZPath # FallbackWACZPath
    /\ \A n \in 1..Len(container) :
           /\ container[n].output = CollectionWACZPath
           /\ container[n].input[1] = CollectionPath

C17_ContainerWritten ==
    /\ "AssembleContainer" \in Range(ended) /\ "AssembleContainer" \notin raised
    /\ container # << >>
    /\ container[1].output = CollectionWACZPath

\* C18: when the extractor was constructed with a valid signingUrl, the
\* container is assembled with that signing endpoint, and with the signing
\* token when one was given; without a valid signingUrl none is handed over.
C18_SigningHandedOver ==
    \A n \in 1..Len(container) :
        IF SigningUrl(options) # << >>
          THEN /\ "signingUrl" \in DOMAIN container[n]
               /\ container[n].signingUrl = SigningUrl(options)
               /\ SigningToken(options) # "" =>
                      /\ "signingToken" \in DOMAIN container[n]
                      /\ container[n].signingToken = SigningToken(options)
          ELSE "signingUrl" \notin DOMAIN container[n]

\* An option that is missing, empty or made of whitespace only.
Blank(option) == option = << >> \/ \A k \in 1..Len(option[1]) : option[1][k] = " "

\* A collection id that is missing, not a number or not greater than zero.
NotAPositiveNumber(option) ==
    \/ option = << >>
    \/ ~IsDigits(option[1])
    \/ \A k \in 1..Len(option[1]) : option[1][k] = "0"

InvalidConfiguration ==
    \/ Blank(options.username)
    \/ Blank(options.password)
    \/ NotAPositiveNumber(options.collectionId)

\* C19: with a missing, empty or whitespace-only username or password, or a
\* collection id that is missing, not a number or not greater than zero, the
\* constructor throws: no stage of process() ever starts, and the working
\* directory, the index and the container stay as they were.
C19_InvalidConfigurationThrows ==
    InvalidConfiguration =>
        /\ pc \in {"Construct", "Thrown"}
        /\ trace = << >> /\ ended = << >>
        /\ disk = disk0 /\ WARCs = << >> /\ container = << >> /\ info = NoInfo

C19_WhitespaceCredentialThrown ==
    /\ pc = "Thrown"
    /\ options.username = << <<" ", " ">> >>
    /\ ~Blank(options.password) /\ ~NotAPositiveNumber(options.collectionId)

\* C20: when DeleteLoose has completed, the working directory holds what it
\* held before, less exactly the .warc.gz entries whose filename is not in
\* this.WARCs: entries without that extension and listed entries are untouched.
C20_DeletesExactlyLooseCaptures ==
    (pc = "VerifyChecksums1" /\ ~active) =>
        /\ DOMAIN disk =
              DOMAIN disk0 \ {f \in DOMAIN disk0 : EndsWith(f, WARC_GZ) /\ ~InCollection(f)}
        /\ \A f \in DOMAIN disk : disk[f] = disk0[f]

(***************************************************************************)
(* process() on a collection whose listing names one file twice, with the  *)
(* file cut short on disk, in an environment that may fail more often.     *)
(***************************************************************************)
InitDuplicate ==
    /\ listing = <<F_One, F_One>>
    /\ disk = (F_One :> SubSeq(RemoteContent(F_One), 1, 1))
    /\ dirExists = TRUE
    /\ container = << >>
    /\ options \in {ValidOptions(c) : c \in ConcurrencyOptions}
    /\ concurrency = StoredConcurrency(options.concurrency)
    /\ info = NoInfo
    /\ WARCs = << >>
    /\ pages = << >>
    /\ pc = "CheckAccess"
    /\ active = FALSE
    /\ result = "none"
    /\ page = 0
    /\ i = 0
    /\ group = << >>
    /\ tasks = << >>
    /\ trace = << >>
    /\ ended = << >>
    /\ raised = {}
    /\ settled = {}
    /\ disk0 = disk
    /\ stats = [NewStats EXCEPT !.budget = MaxFaults + 2]
    /\ prev = << >>

SpecDuplicate == InitDuplicate /\ [][Next]_vars

(***************************************************************************)
(* checkWARCsHashes() called on the instance once process() has returned,  *)
(* any number of times in a row.  A call that throws starts the count anew.*)
(***************************************************************************)
VerifyDirectly ==
    /\ pc \in {"Done", "VerifiedOnce", "VerifiedTwice"}
    /\ \E unreadable \in SUBSET {k \in 1..Len(WARCs) : WARCs[k].filename \in DOMAIN disk},
          rmThrows \in BOOLEAN :
         LET r == CheckHashes(1, WARCs, disk, unreadable, rmThrows) IN
         /\ rmThrows => r.threw
         /\ WARCs' = r.WARCs
         /\ disk' = r.disk
         /\ stats.failures + Cardinality(unreadable) <= stats.budget
         /\ stats' = [stats EXCEPT !.failures = @ + Cardinality(unreadable),
                                   !.hashErrors = @ + Cardinality(unreadable),
                                   !.unread = unreadable]
         /\ pc' = IF r.threw THEN "Done"
                  ELSE IF pc = "Done" THEN "VerifiedOnce" ELSE "VerifiedTwice"
    /\ UNCHANGED <<world, dirExists, container, info, pages, page, batch, active, result,
                   trace, ended, raised>>

NextVerify == Next \/ VerifyDirectly

SpecVerify == Init /\ [][NextVerify]_vars

(* Properties of the checksum passes and of the downloads. *)
\* A checksum pass has just completed.
PassOver == ~active /\ pc \in {"FetchMissing", "BuildPageIndex"}

HashedWell(k) ==
    /\ WARCs[k].filename \in DOMAIN disk
    /\ k \notin stats.unread
    /\ Sha1(disk[WARCs[k].filename]) = WARCs[k].remoteSHA1Hash

\* C21: after a checksum pass a reference has downloaded=true exactly when its
\* file is on disk, was hashed without error and has the remote checksum; no
\* file that was hashed without error is left with another checksum.
C21_DownloadedIffVerified ==
    PassOver =>
        \A k \in 1..Len(WARCs) :
            /\ WARCs[k].downloaded <=> HashedWell(k)
            /\ (WARCs[k].filename \in DOMAIN disk /\ k \notin stats.unread)
                   => Sha1(disk[WARCs[k].filename]) = WARCs[k].remoteSHA1Hash

\* A pass that follows a completed pass directly has itself completed.
SecondPass == pc \in {"VerifiedOnce", "VerifiedTwice"} /\ pc' = "VerifiedTwice"

SamePassOutcome ==
    /\ DOMAIN disk' = DOMAIN disk
    /\ Len(WARCs') = Len(WARCs)
    /\ \A k \in 1..Len(WARCs) : WARCs'[k].downloaded = WARCs[k].downloaded

NotDownloaded == {k \in 1..Len(WARCs) : ~WARCs[k].downloaded}

\* The files of the references with downloaded=true are as they were.
DownloadedUntouched ==
    \A k \in 1..Len(WARCs) :
        WARCs[k].downloaded =>
            /\ WARCs[k].filename \in DOMAIN disk <=> WARCs[k].filename \in DOMAIN disk'
            /\ WARCs[k].filename \in DOMAIN disk
                   => disk'[WARCs[k].filename] = disk[WARCs[k].filename]

\* C23: while FetchMissing runs, no step writes to the file of a reference
\* with downloaded=true, and when its loop is over a task has settled for
\* exactly the references with downloaded=false, one task each.
C23_DownloadsExactlyTheMissing ==
    [][pc = "FetchMissing" =>
          /\ DownloadedUntouched
          /\ BatchOver("FetchMissing", DownloadLoop(i + 1, << >>)) =>
                 /\ SettledItems = NotDownloaded
                 /\ stats.downloads = Cardinality(NotDownloaded)]_vars

(* Properties of the listing and of the crawl information. *)
FirstLocation(f) ==
    IF ListingEntry(f).locations # << >> THEN ListingEntry(f).locations[1] ELSE ""

\* C24: the listing is requested page 1, 2, 3, ... one page per step, a further
\* page only after a response that announced one; when BuildIndex returns, the
\* last page requested announced none, every page before it did, and the
\* references pushed hold, in listing order, the first download location of
\* each entry.
C24_PagesInOrderUntilNoNext ==
    /\ \A n \in 1..Len(stats.asked) : stats.asked[n] = n
    /\ (pc = "BuildIndex" /\ active) =>
           /\ page = Len(stats.asked)
           /\ \A n \in 1..page : ListingPage(listing, n).next
    /\ ("BuildIndex" \in Range(ended) /\ "BuildIndex" \notin raised) =>
           /\ stats.asked # << >>
           /\ ~ListingPage(listing, Len(stats.asked)).next
           /\ \A n \in 1..(Len(stats.asked) - 1) : ListingPage(listing, n).next
           /\ Len(WARCs) >= Len(listing)
           /\ \A k \in 1..Len(listing) :
                  LET ref == WARCs[Len(WARCs) - Len(listing) + k] IN
                  /\ ref.filename = listing[k]
                  /\ ref.downloadUrl = FirstLocation(listing[k])

C24_SeveralPagesRequested ==
    /\ "BuildIndex" \in Range(ended) /\ "BuildIndex" \notin raised
    /\ Len(stats.asked) > 1
    /\ \E k \in 1..Len(WARCs) : Len(ListingEntry(WARCs[k].filename).locations) > 1

\* C25: once BuildIndex has completed, this.WARCs holds one reference per
\* entry of the listing, in listing order, and nothing else, in a first run and
\* in a second run on the same instance.
C25_OneReferencePerEntry ==
    ("BuildIndex" \in Range(ended) /\ "BuildIndex" \notin raised) =>
        /\ Len(WARCs) = Len(listing)
        /\ \A k \in 1..Len(WARCs) : WARCs[k].filename = listing[k]

\* The crawled urls of reference k are the seed records of its crawl report,
\* one per record, in record order.
MatchesReport(k) ==
    LET report == SeedReport(WARCs[k].crawlId)
        urls == WARCs[k].crawledUrls
    IN /\ Len(urls) = Len(report)
       /\ \A n \in 1..Len(report) :
             /\ urls[n].seedId = report[n].seed_id
             /\ urls[n].url = report[n].seed
             /\ urls[n].timestamp = report[n].timestamp

NewlySettled(outcome) == {s[1] : s \in {t \in settled' \ settled : t[2] = outcome}}

\* C26: in EnrichCrawlInfo of a first run every reference gets one task; a
\* task that fails changes the crawled urls of no reference, a task that
\* succeeds appends one crawled url per seed record, in record order, to its
\* own reference and changes no other.
C26_EachReferenceEnrichedOnce ==
    [][pc = "EnrichCrawlInfo" =>
          /\ \A k \in 1..Len(WARCs) :
                /\ <<k, "rejected">> \in settled => WARCs[k].crawledUrls = << >>
                /\ <<k, "fulfilled">> \in settled => MatchesReport(k)
                /\ ~(<<k, "rejected">> \in settled /\ <<k, "fulfilled">> \in settled)
                /\ k \notin SettledItems => WARCs[k].crawledUrls = << >>
          /\ BatchOver("EnrichCrawlInfo", CrawlInfoLoop(i + 1, << >>))
                 => SettledItems = 1..Len(WARCs)
          /\ NewlySettled("rejected") # {} => WARCs' = WARCs
          /\ \A k \in 1..Len(WARCs) :
                WARCs'[k] # WARCs[k] => NewlySettled("fulfilled") = {k}]_vars

C26_FailedAndEnriched ==
    /\ pc = "EnrichCrawlInfo"
    /\ \E k1, k2 \in 1..Len(WARCs) :
          /\ <<k1, "rejected">> \in settled /\ WARCs[k1].crawlId # 0
          /\ <<k2, "fulfilled">> \in settled /\ Len(WARCs[k2].crawledUrls) = 2

\* The crawl ids whose report has been requested in the stage under way: every
\* task of fetchWARCsCrawlInfo requests the report of its reference's crawl id
\* before anything else (0: an absent crawl id).
ReportsRequested == {WARCs[t[1]].crawlId : t \in settled}

\* C27: EnrichCrawlInfo requests no crawl report for a reference without a
\* crawl id.
C27_NoRequestWithoutCrawlId ==
    pc = "EnrichCrawlInfo" => 0 \notin ReportsRequested

(* Properties of title resolution and of the downloads in flight. *)
\* C28: a <title> scraped from the replay page that is the placeholder
\* "Archive-it Wayback" is discarded: the page keeps a null title and the page
\* index holds no entry with that title.
C28_PlaceholderDiscarded ==
    /\ \A e \in stats.titleLog : e.scraped = SENTINEL_TITLE => e.title = ""
    /\ \A n \in 1..Len(pages) : pages[n].title # SENTINEL_TITLE

\* The pages of reference r, as items of title resolution.
PagesOf(r) == {<<r, ii>> : ii \in 1..Len(WARCs[r].crawledUrls)}

\* C29: a group launched by title resolution holds pages of one reference
\* only, and once the stage has completed every reference with fewer pages
\* than the limit has had its pages resolved.
C29_GroupsPerReference ==
    /\ (pc = "ResolveTitles" /\ active) =>
           \A a, b \in 1..Len(group) : group[a][1] = group[b][1]
    /\ ("ResolveTitles" \in Range(ended) /\ "ResolveTitles" \notin raised) =>
           \A r \in 1..Len(WARCs) :
               (~IsPatch(WARCs[r]) /\ 2 * Len(WARCs[r].crawledUrls) < concurrency)
                   => PagesOf(r) \subseteq AttemptedItems

\* C30: for an integral concurrency, no two download tasks in flight at the
\* same time write to the same file, whatever the listing.
C30_NoTwoTasksOnOneFile ==
    (pc = "FetchMissing" /\ active /\ concurrency % 2 = 0) =>
        \A a, b \in InFlight :
            WARCs[group[a]].filename = WARCs[group[b]].filename => a = b

(* Properties of the page index, of the paths and of the requests. *)
\* A raw timestamp of the form "YYYY-MM-DD hh:mm:ss.ffffff".
WellFormed(ts) ==
    /\ Len(ts) = 4
    /\ ts[1] \in Dates /\ ts[2] = " " /\ ts[3] \in Times /\ ts[4] \in Fractions

\* C31: BuildPageIndex gives every titled page with a well-formed raw
\* timestamp "date time.fraction" an entry with the timestamp "dateTtimeZ":
\* the same date and time fields, the fraction dropped.
C31_TimestampNormalized ==
    PageIndexBuilt =>
        \A k \in 1..Len(WARCs) : \A ii \in TitledPages(k) :
            LET crawl == WARCs[k].crawledUrls[ii] IN
            (~NamedPatch(k) /\ WellFormed(crawl.timestamp)) =>
                \E n \in 1..Len(pages) :
                    /\ pages[n].url = crawl.url
                    /\ pages[n].title = crawl.title
                    /\ pages[n].ts = <<crawl.timestamp[1], "T", crawl.timestamp[3], "Z">>

C31_BothTimestampsNormalized ==
    /\ PageIndexBuilt
    /\ \E n, m \in 1..Len(pages) :
          /\ pages[n].ts = <<"2021-04-30", "T", "20:04:57", "Z">>
          /\ pages[m].ts = <<"1999-12-31", "T", "23:59:59", "Z">>

\* The titled pages of the references that are not patches, and the place of
\* one of them in the iteration order of this.WARCs and of crawledUrls.
IndexedPages ==
    UNION {{<<k, ii>> : ii \in TitledPages(k)} : k \in {r \in 1..Len(WARCs) : ~NamedPatch(r)}}

Rank(k, ii) ==
    Cardinality({q \in IndexedPages : q[1] < k \/ (q[1] = k /\ q[2] <= ii)})

InIterationOrder ==
    /\ Len(pages) = Cardinality(IndexedPages)
    /\ \A q \in IndexedPages :
          /\ pages[Rank(q[1], q[2])].url = WARCs[q[1]].crawledUrls[q[2]].url
          /\ pages[Rank(q[1], q[2])].title = WARCs[q[1]].crawledUrls[q[2]].title

\* C32: the page index follows the order of this.WARCs and, within a
\* reference, of its crawledUrls; building it again on unchanged references
\* gives an equal list, not a longer one.
C32_OrderedAndRebuiltEqual ==
    [][/\ PageIndexBuilt' => InIterationOrder'
       /\ pc' = "Rebuilt" => pages' = pages]_vars

C32_RebuiltSeveralEntries ==
    /\ pc = "Rebuilt"
    /\ Len(pages) >= 3
    /\ \E n \in 1..Len(pages) : pages[n].url # pages[1].url

\* A gating stage fails in this step: process() returns false.
Aborts == pc # "Done" /\ pc' = "Done" /\ result' = "false"

\* C33: the step in which a gating stage fails, and every step after it,
\* leaves the files of the working directory as they are; only a failing
\* DeleteLoose has removed, before its rm threw, some of the entries it was to
\* remove.
C33_NoRollbackOnAbort ==
    [][/\ (Aborts /\ pc # "DeleteLoose") => disk' = disk
       /\ (Aborts /\ pc = "DeleteLoose") =>
              /\ DOMAIN disk' \subseteq DOMAIN disk
              /\ \A f \in DOMAIN disk' : disk'[f] = disk[f]
              /\ \A f \in DOMAIN disk \ DOMAIN disk' : ~KeptByDeleteLoose(f)
       /\ (Aborts \/ (pc = "Done" /\ result = "false")) => dirExists' = dirExists
       /\ (pc = "Done" /\ result = "false") => disk' = disk]_vars

C33_AbortedAfterDownload ==
    /\ pc = "Done" /\ result = "false"
    /\ raised \cap {"FetchMissing", "VerifyChecksums2", "AssembleContainer"} # {}
    /\ \E f \in DOMAIN disk : f \notin DOMAIN disk0

(* Properties of the requests. *)
\* getAuthorizationHeader(): Basic, then username:password (its base64 text is
\* left as the pair it encodes).
getAuthorizationHeader ==
    <<"Basic">> \o Trim(options.username[1]) \o <<":">> \o Trim(options.password[1])

\* The headers each call of fetch() is given, by the endpoint it asks.
RequestHeaders(endpoint) ==
    CASE endpoint = "collection check" -> getAuthorizationHeader
      [] endpoint = "collection detail" -> getAuthorizationHeader
      [] endpoint = "listing" -> getAuthorizationHeader
      [] endpoint = "crawl report" -> getAuthorizationHeader
      [] endpoint = "seed metadata" -> << >>
      [] endpoint = "replay" -> << >>
      [] endpoint = "download" -> getAuthorizationHeader

\* The endpoints asked so far in this run.
EndpointsAsked ==
    {e \in {"collection check", "collection detail", "listing", "crawl report",
            "seed metadata", "replay", "download"} :
        \/ e = "collection check" /\ "CheckAccess" \in Range(trace)
        \/ e = "collection detail" /\ "FetchCollectionInfo" \in Range(trace)
        \/ e = "listing" /\ stats.asked # << >>
        \/ e = "crawl report" /\ "EnrichCrawlInfo" \in Range(trace) /\ WARCs # << >>
        \/ e = "seed metadata" /\ \E t \in stats.titleLog : t.metaAsked
        \/ e = "replay" /\ \E t \in stats.titleLog : t.waybackAsked
        \/ e = "download" /\ stats.downloads > 0}

\* C34: every request to the remote archive API carries the Basic credential
\* header, and the request to the replay endpoint carries no credential header.
C34_CredentialOnEveryApiRequest ==
    \A e \in EndpointsAsked :
        IF e = "replay" THEN RequestHeaders(e) = << >>
        ELSE RequestHeaders(e) = getAuthorizationHeader

(* Properties of the collection detail. *)
\* The metadata field is absent from the response, or its list is empty.
AbsentOrEmpty(resp, name) ==
    ~FieldTruthy(resp, name) \/ resp.body[1][name].list = << >>

\* C35: after a status 200 answer to the collection detail request whose title
\* or description is absent or empty, FetchCollectionInfo has not failed, the
\* corresponding field is null and the run has gone on to BuildIndex.
C35_PartialMetadataTolerated ==
    \A n \in 1..Len(stats.answers) :
        LET resp == stats.answers[n] IN
        (/\ resp.status = 200
         /\ AbsentOrEmpty(resp, "Title") \/ AbsentOrEmpty(resp, "Description")) =>
            /\ "FetchCollectionInfo" \notin raised
            /\ AbsentOrEmpty(resp, "Title") => info.collectionTitle = NoInfo.collectionTitle
            /\ AbsentOrEmpty(resp, "Description") =>
                   info.collectionDescription = NoInfo.collectionDescription
            /\ pc = "BuildIndex" \/ "BuildIndex" \in Range(trace)

(* Properties of the references after the listing. *)
AfterBuildIndex ==
    pc \in {"EnrichCrawlInfo", "ResolveTitles", "DeleteLoose", "VerifyChecksums1",
            "FetchMissing", "VerifyChecksums2", "BuildPageIndex", "AssembleContainer",
            "Report"}

\* The fields of a reference that the listing gave.
ListedFields(ref) == <<ref.filename, ref.downloadUrl, ref.remoteSHA1Hash, ref.crawlId>>

\* Pages a and b differ in their titles at most, and a's title is not lost.
SameButTitle(a, b) ==
    /\ a.seedId = b.seedId /\ a.url = b.url /\ a.timestamp = b.timestamp
    /\ a.title # "" => b.title # ""

\* C36: in every step of a stage after BuildIndex the references stay the same
\* in number, order and listed fields; EnrichCrawlInfo only appends pages,
\* ResolveTitles only sets titles and never resets one, the checksum and
\* download stages change only localSHA1Hash and downloaded, and the other
\* stages, BuildPageIndex among them, leave the references as they are.
C36_ReferencesFrame ==
    [][AfterBuildIndex =>
         /\ Len(WARCs') = Len(WARCs)
         /\ \A k \in 1..Len(WARCs) :
              /\ ListedFields(WARCs'[k]) = ListedFields(WARCs[k])
              /\ pc = "EnrichCrawlInfo" =>
                    /\ IsPrefix(WARCs[k].crawledUrls, WARCs'[k].crawledUrls)
                    /\ WARCs'[k].downloaded = WARCs[k].downloaded
                    /\ WARCs'[k].localSHA1Hash = WARCs[k].localSHA1Hash
              /\ pc = "ResolveTitles" =>
                    /\ Len(WARCs'[k].crawledUrls) = Len(WARCs[k].crawledUrls)
                    /\ \A ii \in 1..Len(WARCs[k].crawledUrls) :
                          SameButTitle(WARCs[k].crawledUrls[ii], WARCs'[k].crawledUrls[ii])
                    /\ WARCs'[k].downloaded = WARCs[k].downloaded
                    /\ WARCs'[k].localSHA1Hash = WARCs[k].localSHA1Hash
              /\ pc \in {"VerifyChecksums1", "FetchMissing", "VerifyChecksums2"} =>
                    WARCs'[k].crawledUrls = WARCs[k].crawledUrls
         /\ pc \in {"DeleteLoose", "BuildPageIndex", "AssembleContainer", "Report"} =>
                WARCs' = WARCs]_vars

\* A second run of the same object has gone through every stage: pages were
\* appended to pages, titled pages were resolved again, flags were set.
C36_AllStagesOverTitledPages ==
    /\ pc = "Done" /\ result = "undefined" /\ prev # << >> /\ prev[1].sameInstance
    /\ \E k \in 1..Len(WARCs) :
          /\ Len(WARCs[k].crawledUrls) > Len(SeedReport(WARCs[k].crawlId))
          /\ WARCs[k].downloaded
    /\ \E t \in stats.titleLog : t.title = ""

(* Properties of the credentials check. *)
\* C37: the step in which CheckAccess fails ends process() with failure and
\* leaves the working directory, the local files, the container and the
\* references as they were; the only request made is the existence check, and
\* nothing is done afterwards.
C37_FailedAccessTouchesNothing ==
    [][/\ (pc = "CheckAccess" /\ "CheckAccess" \in raised') =>
              /\ pc' = "Done" /\ result' = "false"
              /\ trace' = <<"CheckAccess">>
              /\ EndpointsAsked' = {"collection check"}
              /\ dirExists' = dirExists /\ disk' = disk /\ container' = container
              /\ WARCs' = WARCs /\ info' = info /\ stats' = stats
       /\ "CheckAccess" \in raised =>
              /\ pc' = pc /\ trace' = trace /\ stats' = stats
              /\ dirExists' = dirExists /\ disk' = disk /\ container' = container]_vars

C37_FailedBeforeDirectory ==
    /\ pc = "Done" /\ result = "false" /\ raised = {"CheckAccess"}
    /\ ~dirExists /\ disk = << >> /\ EndpointsAsked = {"collection check"}

(* Properties of the run as it reaches the report. *)
\* The file of reference k is in the working directory with the remote checksum.
ValidOnDisk(k) ==
    /\ WARCs[k].filename \in DOMAIN disk
    /\ Sha1(disk[WARCs[k].filename]) = WARCs[k].remoteSHA1Hash

\* C38: when process() reaches Report, a reference has downloaded=true exactly
\* when its file is in the working directory with the remote checksum, and no
\* file under a listed filename has another checksum.
C38_FlagsMatchDiskAtReport ==
    pc = "Report" =>
        \A k \in 1..Len(WARCs) :
            /\ WARCs[k].downloaded <=> ValidOnDisk(k)
            /\ WARCs[k].filename \in DOMAIN disk => ValidOnDisk(k)

(* Properties of the constructor. *)
Accepted == pc \notin {"Construct", "Thrown"}

\* C39: for every options object the constructor accepts, the stored
\* concurrency is greater than zero, it is the default 50 when the option is
\* missing, zero, negative or not a number and the option's value otherwise,
\* and a signing token is stored only if a signing URL is.
C39_ConcurrencyPositiveTokenNeedsUrl ==
    Accepted =>
        /\ concurrency > 0
        /\ (options.concurrency.nan \/ options.concurrency.val <= 0) =>
               concurrency = 2 * DEFAULT_CONCURRENCY
        /\ (~options.concurrency.nan /\ options.concurrency.val > 0) =>
               concurrency = options.concurrency.val
        /\ SigningToken(options) # "" => SigningUrl(options) # << >>

C39_FallbackAndTokenDropped ==
    /\ Accepted
    /\ options.concurrency = Num(0 - 2)
    /\ options.signingUrl = << <<"not a url">> >> /\ options.signingToken = "token"

====
